---------------------------- MODULE Spec2Model ----------------------------
(***************************************************************************)
(* A model of enchanted-beans: the CRLF line framer (src/line_reader.rs),  *)
(* the command parser (src/parser.rs) and the connection handler           *)
(* (src/bin/ebeans/main.rs).                                               *)
(*                                                                         *)
(* Bytes are the integers 0..255, as in the source (u8).  Option::None of  *)
(* a usize is written -1; other absent values are the string "None".       *)
(***************************************************************************)
EXTENDS Integers, Sequences, FiniteSets, TLC

VARIABLES
    \* ---- LineReader (src/line_reader.rs) ----
    buf,              \* LineReader::buf
    maybe_crlf_from,  \* LineReader::maybe_crlf_from
    pending_error,    \* LineReader::pending_error: "None" or "Err"
    lr_pc,            \* where read_line is: "idle" (no call in progress) or
                      \* "await" (suspended in reader.read_buf)
    ret,              \* what the last read_line call returned
    delivered,        \* every byte the reader has handed out so far
    frames,           \* every frame read_line has returned so far
    last_read,        \* outcome of the latest read_buf of the current call
    snap,             \* <<buf, maybe_crlf_from, pending_error>> at the latest suspension
    interrupted,      \* some call has been dropped while suspended
    split_crlf,       \* some read ended in CR and the next began with LF
    stale,            \* leading bytes of buf that were buffered when a call returned Ok(None)
    scan,             \* the latest CRLF scan: its cursor, the length of the buffer
                      \* scanned, the bytes read just before it and the proven
                      \* bytes it examined again
    proven,           \* leading bytes of buf that a scan has examined and found
                      \* not to start a CR LF
    \* ---- parser (src/parser.rs) ----
    gen,              \* how the input line was built
    line,             \* the byte slice handed to BeanstalkCommand::try_from
    result,           \* what try_from returned, or NotParsed
    \* ---- response serialiser (src/types/protocol.rs) ----
    resp,             \* the BeanstalkResponse to serialise
    wire,             \* what serialise_beanstalk returned, or NotSerialised
    \* ---- handle_conn (src/bin/ebeans/main.rs) ----
    c_buf,            \* buf
    c_from,           \* maybe_crlf_from
    c_bytes_read,     \* bytes_read of the latest read
    c_pc,             \* "read" (in the read select!), "write" (in the write
                      \* select!), "done" (handle_conn has returned) or
                      \* "closed" (begin_handle has shut the socket down)
    c_resp_buf,       \* resp_buf: the bytes of the response still to be written
    c_ret,            \* what handle_conn returned: "None" until it returns
    cancel,           \* the CancellationToken has been cancelled
    c_todo,           \* the bytes the client has yet to send
    c_delivered,      \* the bytes the socket has handed to read_buf so far
    c_parsed,         \* the frames handed to try_from so far
    c_out,            \* the bytes written to the socket so far
    c_batch,          \* the write_all_buf calls made since the latest read_buf
    \* ---- main, begin and the spawned begin_handle tasks ----
    m_pc,             \* main: "begin" (awaiting begin), "wait" (awaiting
                      \* shutdown_wait.recv()) or "exited"
    exit_code,        \* main's exit_code: "None" until begin has returned
    a_pc,             \* begin: "bind", "accept" (in the select! of the accept
                      \* loop) or "returned"
    h                 \* the begin_handle task of each connection

lrvars == <<buf, maybe_crlf_from, pending_error, lr_pc, ret, delivered, frames,
            last_read, snap, interrupted, split_crlf, stale, scan, proven>>

psvars == <<gen, line, result, resp, wire>>

cnvars == <<c_buf, c_from, c_bytes_read, c_pc, c_resp_buf, c_ret, cancel,
            c_todo, c_delivered, c_parsed, c_out, c_batch>>

srvvars == <<m_pc, exit_code, a_pc, h>>

vars == <<lrvars, psvars, cnvars, srvvars>>

-----------------------------------------------------------------------------
(* Bytes *)

CR == 13
LF == 10
SP == 32

Min(S) == CHOOSE x \in S : \A y \in S : x <= y

SeqsUpTo(S, n) == UNION {[1..k -> S] : k \in 0..n}

IsPrefix(s, t) == Len(s) <= Len(t) /\ SubSeq(t, 1, Len(s)) = s

-----------------------------------------------------------------------------
(* Values of the parser's variables while another component is modelled *)

NoCmd == [variant |-> "None", fields |-> <<>>]

NotParsed == [ok |-> FALSE, err |-> "NotParsed", cmd |-> NoCmd]

NoResp == [variant |-> "None"]

\* no byte is negative
NotSerialised == <<-1>>

EncoderIdle ==
    /\ resp = NoResp
    /\ wire = NotSerialised

ParserIdle ==
    /\ gen = [kind |-> "none"]
    /\ line = <<>>
    /\ result = NotParsed
    /\ EncoderIdle

(* Values of the connection's variables while another component is modelled *)
ConnIdle ==
    /\ c_buf = <<>>
    /\ c_from = 0
    /\ c_bytes_read = 0
    /\ c_pc = "idle"
    /\ c_resp_buf = <<>>
    /\ c_ret = "None"
    /\ cancel = FALSE
    /\ c_todo = <<>>
    /\ c_delivered = <<>>
    /\ c_parsed = <<>>
    /\ c_out = <<>>
    /\ c_batch = 0

(* Values of the server's variables while another component is modelled *)
SrvIdle ==
    /\ m_pc = "idle"
    /\ exit_code = "None"
    /\ a_pc = "idle"
    /\ h = <<>>

-----------------------------------------------------------------------------
(* Bounds of the LineReader model *)

\* the reader hands out at most this many bytes in total
MaxStream == 6

\* the bytes the reader hands out: CR, LF and one payload byte 'a'
StreamBytes == {CR, LF, 97}

-----------------------------------------------------------------------------
(* LineReader::read_line *)

\* buf.iter().skip(from).tuple_windows().position(|x| x == (CR, LF));
\* -1 stands for None
Position(b, from) ==
    LET hits == {i \in (from + 1)..(Len(b) - 1) : b[i] = CR /\ b[i + 1] = LF}
    IN  IF hits = {} THEN -1 ELSE Min(hits) - (from + 1)

MutSplitPastEnd(from, eoc) == from + eoc + 3
\* the argument of split_to
SplitAt(from, eoc) == from + eoc + 2

\* cmd.slice(0..cmd.len() - 2) of the split-off head
FrameOf(b, k) == SubSeq(b, 1, k - 2)

\* what split_to leaves in buf
RestOf(b, k) == SubSeq(b, k + 1, Len(b))

MutCursorKept(from, eoc) == from
\* self.maybe_crlf_from = 0 after a frame is split off
CursorAfterFrame(from, eoc) == 0

MutCursorNoPullBack(len, n) == IF len >= n THEN len - n ELSE 0
\* self.buf.len().checked_sub(n_bytes_read + 1).unwrap_or(0)
CursorAfterRead(len, n) == IF len >= n + 1 THEN len - (n + 1) ELSE 0

MutErrorKept(pe) == pe
\* what self.pending_error.take() leaves in pending_error
PendingAfterTake(pe) == "None"

MutErrorSwallowed(pe) == "OkNone"
\* match self.pending_error.take() { Some(e) => Err(e), None => Ok(None) }
ReturnOnZero(pe) == IF pe # "None" THEN "Err" ELSE "OkNone"

MutBufTakenForRead(b) == <<>>
\* what self.buf holds when the read_buf future is dropped before completing:
\* read_buf appends to self.buf in place and only when it completes
BufAfterDrop(b) == b

\* One pass of the loop body up to the read (lines 46-66) on buffer b and
\* cursor from, n bytes of b being just read: either a frame is returned or
\* the call suspends in read_buf.  The scan examines b from the cursor on;
\* it stops at the first CR LF, and when it finds none every byte but the
\* last is proven not to start one.
LoopHead(b, from, pe, st, n) ==
    LET eoc == Position(b, from) IN
    /\ scan' = [from |-> from, len |-> Len(b), read |-> n,
                again |-> IF proven > from THEN proven - from ELSE 0]
    /\ proven' = IF eoc # -1 \/ Len(b) = 0 THEN 0 ELSE Len(b) - 1
    /\ IF eoc # -1
       THEN LET k == SplitAt(from, eoc) IN
            /\ buf' = RestOf(b, k)
            /\ maybe_crlf_from' = CursorAfterFrame(from, eoc)
            /\ pending_error' = pe
            /\ lr_pc' = "idle"
            /\ ret' = [kind |-> "Some", frame |-> FrameOf(b, k),
                       stale |-> IF st < k - 2 THEN st ELSE k - 2]
            /\ frames' = Append(frames, FrameOf(b, k))
            /\ stale' = IF st > k THEN st - k ELSE 0
            /\ snap' = snap
       ELSE /\ buf' = b
            /\ maybe_crlf_from' = from
            /\ pending_error' = pe
            /\ lr_pc' = "await"
            /\ ret' = [kind |-> "Pending", frame |-> <<>>, stale |-> 0]
            /\ frames' = frames
            /\ stale' = st
            /\ snap' = <<b, from, pe>>

\* a caller invokes read_line
ReadLineCall ==
    /\ lr_pc = "idle"
    /\ last_read' = "None"
    /\ LoopHead(buf, maybe_crlf_from, pending_error, stale, 0)
    /\ UNCHANGED <<delivered, interrupted, split_crlf>>
    /\ UNCHANGED <<psvars, cnvars, srvvars>>

\* read_buf completes with Ok(n), n > 0: chunk is appended, the cursor is
\* set and the loop runs again
ReadBufChunk(chunk) ==
    /\ lr_pc = "await"
    /\ chunk # <<>>
    /\ delivered' = delivered \o chunk
    /\ last_read' = "Data"
    /\ split_crlf' = (split_crlf \/
          (buf # <<>> /\ buf[Len(buf)] = CR /\ chunk[1] = LF))
    /\ LoopHead(buf \o chunk,
                CursorAfterRead(Len(buf) + Len(chunk), Len(chunk)),
                pending_error, stale, Len(chunk))
    /\ UNCHANGED interrupted

\* read_buf completes with some bytes, within the bound on the stream
ReadBufData ==
    /\ \E chunk \in SeqsUpTo(StreamBytes, MaxStream - Len(delivered)) :
        ReadBufChunk(chunk)
    /\ UNCHANGED <<psvars, cnvars, srvvars>>

\* the tail of the loop body when n_bytes_read = 0 (lines 82-95)
ZeroTail(pe) ==
    /\ buf' = buf
    /\ maybe_crlf_from' = CursorAfterRead(Len(buf), 0)
    /\ pending_error' = PendingAfterTake(pe)
    /\ lr_pc' = "idle"
    /\ ret' = [kind |-> ReturnOnZero(pe), frame |-> <<>>, stale |-> 0]
    /\ UNCHANGED <<delivered, frames, snap, interrupted, split_crlf, scan, proven>>

\* read_buf completes with Ok(0)
ReadBufZeroStep ==
    /\ lr_pc = "await"
    /\ last_read' = "Zero"
    /\ stale' = IF ReturnOnZero(pending_error) = "OkNone" THEN Len(buf) ELSE stale
    /\ ZeroTail(pending_error)

ReadBufZero ==
    /\ ReadBufZeroStep
    /\ UNCHANGED <<psvars, cnvars, srvvars>>

\* read_buf completes with Err(e)
ReadBufErr ==
    /\ lr_pc = "await"
    /\ last_read' = "Err"
    /\ stale' = stale
    /\ ZeroTail("Err")
    /\ UNCHANGED <<psvars, cnvars, srvvars>>

\* the read_line future is dropped while suspended in read_buf
ReadLineDropped ==
    /\ lr_pc = "await"
    /\ lr_pc' = "idle"
    /\ buf' = BufAfterDrop(buf)
    /\ ret' = [kind |-> "Dropped", frame |-> <<>>, stale |-> 0]
    /\ interrupted' = TRUE
    /\ UNCHANGED <<maybe_crlf_from, pending_error, delivered, frames,
                   last_read, snap, split_crlf, stale, scan, proven>>
    /\ UNCHANGED <<psvars, cnvars, srvvars>>

\* impl From<T> for LineReader<T>
NewLineReader ==
    /\ buf = <<>>
    /\ maybe_crlf_from = 0
    /\ pending_error = "None"
    /\ lr_pc = "idle"
    /\ ret = [kind |-> "Init", frame |-> <<>>, stale |-> 0]
    /\ delivered = <<>>
    /\ frames = <<>>
    /\ last_read = "None"
    /\ snap = <<<<>>, 0, "None">>
    /\ interrupted = FALSE
    /\ split_crlf = FALSE
    /\ stale = 0
    /\ scan = [from |-> 0, len |-> 0, read |-> 0, again |-> 0]
    /\ proven = 0

InitLR == NewLineReader /\ ParserIdle /\ ConnIdle /\ SrvIdle

NextLR ==
    \/ ReadLineCall
    \/ ReadBufData
    \/ ReadBufZero
    \/ ReadBufErr
    \/ ReadLineDropped

SpecLR == InitLR /\ [][NextLR]_vars

-----------------------------------------------------------------------------
(* Properties of LineReader::read_line *)

\* some CR LF pair lies in b, wherever the cursor is
HasCRLF(b) == \E i \in 1..(Len(b) - 1) : b[i] = CR /\ b[i + 1] = LF

\* the stream s split at each CR LF, the terminators stripped and the
\* unterminated remainder left out
RECURSIVE CompleteLines(_)
CompleteLines(s) ==
    LET hits == {i \in 1..(Len(s) - 1) : s[i] = CR /\ s[i + 1] = LF}
    IN  IF hits = {} THEN <<>>
        ELSE <<SubSeq(s, 1, Min(hits) - 1)>>
                 \o CompleteLines(SubSeq(s, Min(hits) + 2, Len(s)))

\* the frames, each with its terminator put back, in one sequence
RECURSIVE Rejoin(_)
Rejoin(fs) ==
    IF fs = <<>> THEN <<>> ELSE fs[1] \o <<CR, LF>> \o Rejoin(Tail(fs))

\* the call has no frame left to give: it is suspended in a read, or it
\* came back without a frame
Drained == lr_pc = "await" \/ ret.kind \in {"OkNone", "Err", "Dropped"}

\* C1: however the stream is cut into reads, the frames returned so far are
\* the first complete lines of the stream delivered so far, and once a call
\* asks for more input (or comes back empty-handed) they are all of them.
C1_FragmentationIndependent ==
    /\ IsPrefix(frames, CompleteLines(delivered))
    /\ Drained => frames = CompleteLines(delivered)

\* C1 witness: a terminator was split between two reads and two frames, the
\* first non-empty, have been returned and are all the lines of the stream.
C1_Witness ==
    /\ split_crlf
    /\ Len(frames) = 2
    /\ frames[1] # <<>>
    /\ Drained

\* C2: read_line is never suspended in a read while the buffer holds a
\* complete line, and a returned frame is one line only.
C2_NoReadWhileLineBuffered ==
    /\ lr_pc = "await" => ~HasCRLF(buf)
    /\ ret.kind = "Some" => ~HasCRLF(ret.frame)

\* C2 witness: a call returned a frame straight from the buffer, without
\* reading, and yet another complete line is still buffered.
C2_Witness ==
    /\ lr_pc = "idle"
    /\ ret.kind = "Some"
    /\ last_read = "None"
    /\ Len(frames) >= 2
    /\ HasCRLF(buf)

\* C3: when a call is dropped while suspended, buf, maybe_crlf_from and
\* pending_error are what they were at the suspension; no delivered byte is
\* ever lost; and after an interruption the frames are still exactly the
\* lines of the delivered stream.
C3_CancelSafe ==
    /\ ret.kind = "Dropped" => <<buf, maybe_crlf_from, pending_error>> = snap
    /\ Rejoin(frames) \o buf = delivered
    /\ interrupted =>
          /\ IsPrefix(frames, CompleteLines(delivered))
          /\ Drained => frames = CompleteLines(delivered)

\* C3 witness: a call was dropped while a partial line was buffered behind
\* an advanced cursor, after a frame had been returned.
C3_Witness ==
    /\ ret.kind = "Dropped"
    /\ Len(buf) >= 2
    /\ maybe_crlf_from > 0
    /\ Len(frames) >= 1

\* C4: an Err is returned only for a failed read and only when no complete
\* line is buffered; a call whose read gave 0 bytes returns Ok(None); a call
\* whose read failed returns Err.
C4_ErrorAfterLines ==
    /\ ret.kind = "Err" => last_read = "Err" /\ ~HasCRLF(buf)
    /\ (lr_pc = "idle" /\ last_read = "Zero") => ret.kind = "OkNone"
    /\ (lr_pc = "idle" /\ last_read = "Err") => ret.kind = "Err"

\* C4 witness: a read error was returned after a frame had been returned,
\* with a partial line buffered.
C4_Witness ==
    /\ ret.kind = "Err"
    /\ last_read = "Err"
    /\ Len(frames) >= 1
    /\ buf # <<>>

\* C5: a 0-byte read returns Ok(None) and the partial line buffered then is
\* discarded: no later frame holds a byte that was buffered at that moment.
C5_EofDiscardsPartialLine ==
    /\ (lr_pc = "idle" /\ last_read = "Zero") => ret.kind = "OkNone"
    /\ ret.kind = "Some" => ret.stale = 0

\* C28: no scan examines again a byte that an earlier scan has examined and
\* found not to start a CR LF, whether the calls run to their end or are
\* dropped at the read and made again; and after a read the scan starts one
\* byte before the first byte just read (at that byte when none precedes it).
C28_NoRescan ==
    /\ scan.again = 0
    /\ scan.read > 0 =>
          scan.from = IF scan.len > scan.read THEN scan.len - scan.read - 1 ELSE 0

\* no CR LF pair of b starts at an index below from
NoneBelow(b, from) ==
    \A i \in 1..from : ~(i < Len(b) /\ b[i] = CR /\ b[i + 1] = LF)

\* the buffer the latest scan looked at: what it split off put back in front
Scanned == IF ret.kind = "Some" THEN ret.frame \o <<CR, LF>> \o buf ELSE buf

\* C29: the cursor lies within the buffer and no CR LF pair starts below it,
\* both when a scan starts and in every state between calls or at the read;
\* and the position a frame is split at is within the buffer scanned.
C29_CursorInvariant ==
    /\ 0 <= maybe_crlf_from /\ maybe_crlf_from <= Len(buf)
    /\ NoneBelow(buf, maybe_crlf_from)
    /\ 0 <= scan.from /\ scan.from <= scan.len
    /\ scan.len = Len(Scanned)
    /\ NoneBelow(Scanned, scan.from)
    /\ ret.kind = "Some" => Len(ret.frame) + 2 <= scan.len

\* C29 witness: after a read a scan from an advanced cursor has split a
\* frame off and left bytes in the buffer.
C29_Witness ==
    /\ ret.kind = "Some"
    /\ scan.read > 0
    /\ scan.from > 0
    /\ buf # <<>>

\* C30: a call returns Err only for the read that failed in that call, and
\* leaves pending_error empty and the buffer as it was; the call after an Err
\* keeps the buffer and suspends in a new read; and the frame a read
\* completes is made of the bytes that were buffered and the bytes just read.
C30_ErrorReportedOnce ==
    [][/\ (lr_pc = "await" /\ ret'.kind = "Err") =>
              (last_read' = "Err" /\ pending_error' = "None" /\ buf' = buf)
       /\ (lr_pc = "idle" /\ ret.kind = "Err") =>
              (lr_pc' = "await" /\ pending_error' = "None" /\ buf' = buf)
       /\ (lr_pc = "await" /\ ret'.kind = "Some") =>
              ret'.frame \o <<CR, LF>> \o buf'
                  = buf \o SubSeq(delivered', Len(delivered) + 1, Len(delivered'))
      ]_vars

\* C30 witness: an Err has been returned while the start of a line was
\* buffered, and pending_error is empty.
C30_Witness ==
    /\ ret.kind = "Err"
    /\ pending_error = "None"
    /\ buf = <<97>>
    /\ frames = <<>>

-----------------------------------------------------------------------------
(* Unsigned integers.  A u32 is two and a u64 four 16-bit limbs, least      *)
(* significant first, so that no intermediate value leaves TLC's integers.  *)

Limb == 2^16

LimbsOf(kind) == IF kind = "u32" THEN 2 ELSE 4

Zero(w) == [i \in 1..w |-> 0]

\* a * m + c on limbs: <<the low Len(a) limbs, the carry out>>
RECURSIVE MulAdd(_, _, _)
MulAdd(a, m, c) ==
    IF a = <<>> THEN <<<<>>, c>>
    ELSE LET t == a[1] * m + c
             r == MulAdd(Tail(a), m, t \div Limb)
         IN  <<<<t % Limb>> \o r[1], r[2]>>

MutWrappingMul(r, m) == [some |-> TRUE, v |-> MulAdd(r, m, 0)[1]]
\* r.checked_mul(m): None on overflow
checked_mul(r, m) ==
    LET p == MulAdd(r, m, 0)
    IN  IF p[2] # 0 THEN [some |-> FALSE, v |-> r] ELSE [some |-> TRUE, v |-> p[1]]

MutAddRejectsMax(r, d) ==
    LET p == MulAdd(r, 1, d)
    IN  IF p[2] # 0 \/ p[1] = [i \in 1..Len(r) |-> Limb - 1]
        THEN [some |-> FALSE, v |-> r] ELSE [some |-> TRUE, v |-> p[1]]
\* r.checked_add(d): None on overflow
checked_add(r, d) ==
    LET p == MulAdd(r, 1, d)
    IN  IF p[2] # 0 THEN [some |-> FALSE, v |-> r] ELSE [some |-> TRUE, v |-> p[1]]

-----------------------------------------------------------------------------
(* ParseState.  Each method takes the remaining input `from` and returns    *)
(* [ok, val, rest]: Ok(val) with the input left, or Err(BadFormat).         *)

Ok(v, rest) == [ok |-> TRUE, val |-> v, rest |-> rest]
Bad == [ok |-> FALSE, val |-> <<>>, rest |-> <<>>]

\* ParseState::next_token
next_token(from) ==
    IF Len(from) = 0 THEN [some |-> FALSE, token |-> <<>>, rest |-> from]
    ELSE LET sp == {i \in 1..Len(from) : from[i] = SP}
             idx == IF sp = {} THEN Len(from) ELSE Min(sp) - 1
         IN  [some |-> TRUE, token |-> SubSeq(from, 1, idx),
              rest |-> SubSeq(from, idx + 1, Len(from))]

MutEmptyTokenOk(from) ==
    LET t == next_token(from)
    IN  IF ~t.some THEN Bad ELSE Ok(t.token, t.rest)
\* ParseState::expect_next_token
expect_next_token(from) ==
    LET t == next_token(from)
    IN  IF ~t.some THEN Bad
        ELSE IF Len(t.token) = 0 THEN Bad
        ELSE Ok(t.token, t.rest)

\* ParseState::expect_space
expect_space(from) ==
    IF Len(from) > 0 /\ from[1] = SP THEN Ok(<<>>, Tail(from)) ELSE Bad

\* the loop `for v in token` of expect_next_u32 / expect_next_u64 from the
\* i-th byte on, r being the accumulator
RECURSIVE Accumulate(_, _, _)
Accumulate(token, i, r) ==
    IF i > Len(token) THEN [some |-> TRUE, v |-> r]
    ELSE IF token[i] \in 48..57                     \* b'0'..=b'9'
    THEN LET m == checked_mul(r, 10) IN
         IF ~m.some THEN [some |-> FALSE, v |-> r]
         ELSE LET a == checked_add(m.v, token[i] - 48) IN
              IF ~a.some THEN [some |-> FALSE, v |-> r]
              ELSE Accumulate(token, i + 1, a.v)
    ELSE [some |-> FALSE, v |-> r]

\* expect_space()?; expect_next_token()?; the digit loop in w limbs
ExpectUint(from, w) ==
    LET s == expect_space(from) IN
    IF ~s.ok THEN Bad
    ELSE LET t == expect_next_token(s.rest) IN
         IF ~t.ok THEN Bad
         ELSE LET r == Accumulate(t.val, 1, Zero(w)) IN
              IF ~r.some THEN Bad ELSE Ok(r.v, t.rest)

\* ParseState::expect_next_u32
expect_next_u32(from) == ExpectUint(from, LimbsOf("u32"))

\* ParseState::expect_next_u64
expect_next_u64(from) == ExpectUint(from, LimbsOf("u64"))

MaxTubeNameLen == 200

MutDashAnywhere(c, is_first) ==
    \/ c \in 97..122 \/ c \in 65..90 \/ c \in 48..57
    \/ c \in {43, 47, 59, 46, 36, 95, 40, 41}
    \/ c = 45
\* fn char_is_name_safe
char_is_name_safe(c, is_first) ==
    IF c \in 97..122 THEN TRUE                              \* b'a'..=b'z'
    ELSE IF c \in 65..90 THEN TRUE                          \* b'A'..=b'Z'
    ELSE IF c \in 48..57 THEN TRUE                          \* b'0'..=b'9'
    ELSE IF c \in {43, 47, 59, 46, 36, 95, 40, 41} THEN TRUE  \* + / ; . $ _ ( )
    ELSE IF c = 45 THEN ~is_first                           \* b'-'
    ELSE FALSE

\* ParseState::expect_next_name
expect_next_name(from) ==
    LET s == expect_space(from) IN
    IF ~s.ok THEN Bad
    ELSE LET t == expect_next_token(s.rest) IN
         IF ~t.ok THEN Bad
         ELSE LET r == t.val IN
              IF /\ \A i \in 1..Len(r) : char_is_name_safe(r[i], i = 1)
                 /\ Len(r) <= MaxTubeNameLen
              THEN Ok(r, t.rest)
              ELSE Bad

-----------------------------------------------------------------------------
(* impl TryFrom<&[u8]> for BeanstalkCommand *)

\* the command names as byte strings
B_list_tube_used == <<108, 105, 115, 116, 45, 116, 117, 98, 101, 45, 117, 115, 101, 100>>  \* b"list-tube-used"
B_list_tubes_watched == <<108, 105, 115, 116, 45, 116, 117, 98, 101, 115, 45, 119, 97, 116, 99, 104, 101, 100>>  \* b"list-tubes-watched"
B_list_tubes == <<108, 105, 115, 116, 45, 116, 117, 98, 101, 115>>  \* b"list-tubes"
B_peek_buried == <<112, 101, 101, 107, 45, 98, 117, 114, 105, 101, 100>>  \* b"peek-buried"
B_peek_delayed == <<112, 101, 101, 107, 45, 100, 101, 108, 97, 121, 101, 100>>  \* b"peek-delayed"
B_peek_ready == <<112, 101, 101, 107, 45, 114, 101, 97, 100, 121>>  \* b"peek-ready"
B_quit == <<113, 117, 105, 116>>  \* b"quit"
B_reserve == <<114, 101, 115, 101, 114, 118, 101>>  \* b"reserve"
B_stats == <<115, 116, 97, 116, 115>>  \* b"stats"
B_delete == <<100, 101, 108, 101, 116, 101>>  \* b"delete"
B_kick == <<107, 105, 99, 107>>  \* b"kick"
B_kick_job == <<107, 105, 99, 107, 45, 106, 111, 98>>  \* b"kick-job"
B_peek == <<112, 101, 101, 107>>  \* b"peek"
B_reserve_job == <<114, 101, 115, 101, 114, 118, 101, 45, 106, 111, 98>>  \* b"reserve-job"
B_stats_job == <<115, 116, 97, 116, 115, 45, 106, 111, 98>>  \* b"stats-job"
B_touch == <<116, 111, 117, 99, 104>>  \* b"touch"
B_reserve_with_timeout == <<114, 101, 115, 101, 114, 118, 101, 45, 119, 105, 116, 104, 45, 116, 105, 109, 101, 111, 117, 116>>  \* b"reserve-with-timeout"
B_use == <<117, 115, 101>>  \* b"use"
B_watch == <<119, 97, 116, 99, 104>>  \* b"watch"
B_ignore == <<105, 103, 110, 111, 114, 101>>  \* b"ignore"
B_stats_tube == <<115, 116, 97, 116, 115, 45, 116, 117, 98, 101>>  \* b"stats-tube"
B_bury == <<98, 117, 114, 121>>  \* b"bury"
B_pause_tube == <<112, 97, 117, 115, 101, 45, 116, 117, 98, 101>>  \* b"pause-tube"
B_release == <<114, 101, 108, 101, 97, 115, 101>>  \* b"release"
B_put == <<112, 117, 116>>  \* b"put"

\* the arms of the match in try_from, in source order: the name matched, the
\* variant built, and its fields with the expect_next_* call that reads each
MatchArms == <<
    [name |-> B_list_tube_used, variant |-> "ListTubeUsed", fields |-> <<>>, kinds |-> <<>>],
    [name |-> B_list_tubes_watched, variant |-> "ListTubesWatched", fields |-> <<>>, kinds |-> <<>>],
    [name |-> B_list_tubes, variant |-> "ListTubes", fields |-> <<>>, kinds |-> <<>>],
    [name |-> B_peek_buried, variant |-> "PeekBuried", fields |-> <<>>, kinds |-> <<>>],
    [name |-> B_peek_delayed, variant |-> "PeekDelayed", fields |-> <<>>, kinds |-> <<>>],
    [name |-> B_peek_ready, variant |-> "PeekReady", fields |-> <<>>, kinds |-> <<>>],
    [name |-> B_quit, variant |-> "Quit", fields |-> <<>>, kinds |-> <<>>],
    [name |-> B_reserve, variant |-> "Reserve", fields |-> <<>>, kinds |-> <<>>],
    [name |-> B_stats, variant |-> "StatsServer", fields |-> <<>>, kinds |-> <<>>],
    [name |-> B_delete, variant |-> "Delete", fields |-> <<"id">>, kinds |-> <<"u64">>],
    [name |-> B_kick, variant |-> "Kick", fields |-> <<"bound">>, kinds |-> <<"u64">>],
    [name |-> B_kick_job, variant |-> "KickJob", fields |-> <<"id">>, kinds |-> <<"u64">>],
    [name |-> B_peek, variant |-> "Peek", fields |-> <<"id">>, kinds |-> <<"u64">>],
    [name |-> B_reserve_job, variant |-> "ReserveJob", fields |-> <<"id">>, kinds |-> <<"u64">>],
    [name |-> B_stats_job, variant |-> "StatsJob", fields |-> <<"id">>, kinds |-> <<"u64">>],
    [name |-> B_touch, variant |-> "Touch", fields |-> <<"id">>, kinds |-> <<"u64">>],
    [name |-> B_reserve_with_timeout, variant |-> "ReserveWithTimeout", fields |-> <<"timeout">>, kinds |-> <<"u32">>],
    [name |-> B_use, variant |-> "Use", fields |-> <<"tube">>, kinds |-> <<"name">>],
    [name |-> B_watch, variant |-> "Watch", fields |-> <<"tube">>, kinds |-> <<"name">>],
    [name |-> B_ignore, variant |-> "Ignore", fields |-> <<"tube">>, kinds |-> <<"name">>],
    [name |-> B_stats_tube, variant |-> "StatsTube", fields |-> <<"tube">>, kinds |-> <<"name">>],
    [name |-> B_bury, variant |-> "Bury", fields |-> <<"id", "pri">>, kinds |-> <<"u64", "u32">>],
    [name |-> B_pause_tube, variant |-> "PauseTube", fields |-> <<"tube", "delay">>, kinds |-> <<"name", "u32">>],
    [name |-> B_release, variant |-> "Release", fields |-> <<"id", "pri", "delay">>, kinds |-> <<"u64", "u32", "u32">>],
    [name |-> B_put, variant |-> "Put", fields |-> <<"pri", "delay", "ttr", "n_bytes">>, kinds |-> <<"u32", "u32", "u32", "u32">>]
    >>

Err(e) == [ok |-> FALSE, err |-> e, cmd |-> NoCmd]

MutRestIgnored(from, cmd) == [ok |-> TRUE, err |-> "None", cmd |-> cmd]
\* ParseState::expect_done_and
expect_done_and(from, cmd) ==
    IF Len(from) = 0 THEN [ok |-> TRUE, err |-> "None", cmd |-> cmd]
    ELSE Err("BadFormat")

MutTokenStartsWith(token, name) == IsPrefix(name, token)
\* a byte-string pattern of the match: the token is the name, whole
TokenIs(token, name) == token = name

\* the expect_next_* call of a field of the given kind
ExpectField(from, kind) ==
    IF kind = "u32" THEN expect_next_u32(from)
    ELSE IF kind = "u64" THEN expect_next_u64(from)
    ELSE expect_next_name(from)

\* the field initialisers of a struct-like arm, evaluated in written order
\* from the i-th on, each with `?`; vals are the values read so far
RECURSIVE ExpectFields(_, _, _, _)
ExpectFields(from, kinds, i, vals) ==
    IF i > Len(kinds) THEN Ok(vals, from)
    ELSE LET f == ExpectField(from, kinds[i]) IN
         IF ~f.ok THEN Bad
         ELSE ExpectFields(f.rest, kinds, i + 1, Append(vals, f.val))

\* the command value built by an arm from the field values read
Command(variant, fields, vals) ==
    [variant |-> variant,
     fields |-> [n \in {fields[i] : i \in 1..Len(fields)} |->
                    vals[CHOOSE i \in 1..Len(fields) : fields[i] = n]]]

\* BeanstalkCommand::try_from
try_from(value) ==
    LET t == expect_next_token(value) IN
    IF ~t.ok THEN Err("BadFormat")
    ELSE LET hits == {i \in 1..Len(MatchArms) : TokenIs(t.val, MatchArms[i].name)} IN
         IF hits = {} THEN Err("UnknownCommand")
         ELSE LET arm == MatchArms[Min(hits)]
                  f == ExpectFields(t.rest, arm.kinds, 1, <<>>)
              IN  IF ~f.ok THEN Err("BadFormat")
                  ELSE expect_done_and(f.rest, Command(arm.variant, arm.fields, f.val))

-----------------------------------------------------------------------------
(* The wire grammar and the inputs the parser is run on *)

\* the wire grammar: each command's name, the variant it denotes and its
\* fields in wire order
WireGrammar == <<
    [wire |-> B_reserve, variant |-> "Reserve", fields |-> <<>>],
    [wire |-> B_peek_ready, variant |-> "PeekReady", fields |-> <<>>],
    [wire |-> B_peek_delayed, variant |-> "PeekDelayed", fields |-> <<>>],
    [wire |-> B_peek_buried, variant |-> "PeekBuried", fields |-> <<>>],
    [wire |-> B_stats, variant |-> "StatsServer", fields |-> <<>>],
    [wire |-> B_list_tubes, variant |-> "ListTubes", fields |-> <<>>],
    [wire |-> B_list_tube_used, variant |-> "ListTubeUsed", fields |-> <<>>],
    [wire |-> B_list_tubes_watched, variant |-> "ListTubesWatched", fields |-> <<>>],
    [wire |-> B_quit, variant |-> "Quit", fields |-> <<>>],
    [wire |-> B_delete, variant |-> "Delete", fields |-> <<"id">>],
    [wire |-> B_peek, variant |-> "Peek", fields |-> <<"id">>],
    [wire |-> B_kick_job, variant |-> "KickJob", fields |-> <<"id">>],
    [wire |-> B_reserve_job, variant |-> "ReserveJob", fields |-> <<"id">>],
    [wire |-> B_stats_job, variant |-> "StatsJob", fields |-> <<"id">>],
    [wire |-> B_touch, variant |-> "Touch", fields |-> <<"id">>],
    [wire |-> B_kick, variant |-> "Kick", fields |-> <<"bound">>],
    [wire |-> B_reserve_with_timeout, variant |-> "ReserveWithTimeout", fields |-> <<"timeout">>],
    [wire |-> B_use, variant |-> "Use", fields |-> <<"tube">>],
    [wire |-> B_watch, variant |-> "Watch", fields |-> <<"tube">>],
    [wire |-> B_ignore, variant |-> "Ignore", fields |-> <<"tube">>],
    [wire |-> B_stats_tube, variant |-> "StatsTube", fields |-> <<"tube">>],
    [wire |-> B_bury, variant |-> "Bury", fields |-> <<"id", "pri">>],
    [wire |-> B_pause_tube, variant |-> "PauseTube", fields |-> <<"tube", "delay">>],
    [wire |-> B_release, variant |-> "Release", fields |-> <<"id", "pri", "delay">>],
    [wire |-> B_put, variant |-> "Put", fields |-> <<"pri", "delay", "ttr", "n_bytes">>]
    >>

\* the kind of each field: 32-bit, 64-bit or a tube name
KindOf(field) ==
    IF field \in {"pri", "delay", "ttr", "n_bytes", "timeout"} THEN "u32"
    ELSE IF field \in {"id", "bound"} THEN "u64"
    ELSE "name"

KindsOf(row) == [i \in 1..Len(WireGrammar[row].fields) |-> KindOf(WireGrammar[row].fields[i])]

\* the decimal digits of a number given in limbs, as format!("{v}") writes them
Rem10(a) ==
    LET R[i \in 1..(Len(a) + 1)] ==
            IF i = Len(a) + 1 THEN 0 ELSE (R[i + 1] * Limb + a[i]) % 10
    IN  R
Quot10(a) == [i \in 1..Len(a) |-> (Rem10(a)[i + 1] * Limb + a[i]) \div 10]
RECURSIVE Digits(_)
Digits(a) ==
    IF a = Zero(Len(a)) THEN <<>> ELSE Digits(Quot10(a)) \o <<48 + Rem10(a)[1]>>
Decimal(a) == IF a = Zero(Len(a)) THEN <<48>> ELSE Digits(a)

Rep(c, n) == [i \in 1..n |-> c]

RECURSIVE Tuples(_)
Tuples(sets) ==
    IF sets = <<>> THEN {<<>>}
    ELSE {<<x>> \o t : x \in sets[1], t \in Tuples(Tail(sets))}

RECURSIVE Concat(_)
Concat(ss) == IF ss = <<>> THEN <<>> ELSE ss[1] \o Concat(Tail(ss))

\* the line: the command name, then each token preceded by one space
Render(row, toks) ==
    WireGrammar[row].wire \o Concat([i \in 1..Len(toks) |-> <<SP>> \o toks[i]])

\* limb values around the carries of r * 10 + d and the ends of the range
LimbEdge == {0, 1, 9, 10, 6553, 6554, 39321, 39322, Limb - 1}

\* a few valid tube names: "a", "Z-", "t_0+/;.$()-"
NamesFew == {<<97>>, <<90, 45>>, <<116, 95, 48, 43, 47, 59, 46, 36, 40, 41, 45>>}

\* values of a field of the given kind: a few, used in every combination
FewOf(kind) ==
    IF kind = "u32" THEN {Zero(2), <<7, 0>>, <<Limb - 1, Limb - 1>>}
    ELSE IF kind = "u64" THEN {Zero(4), <<7, 0, 0, 0>>, Rep(Limb - 1, 4)}
    ELSE NamesFew

\* values of a field of the given kind at the edges, used one field at a time
EdgeOf(kind) ==
    IF kind = "u32" THEN {<<a, b>> : a \in LimbEdge, b \in LimbEdge}
    ELSE IF kind = "u64"
    THEN {<<a, b, c, d>> : a \in LimbEdge, b \in {0, Limb - 1},
                           c \in {0, Limb - 1}, d \in LimbEdge}
    ELSE NamesFew \cup {Rep(97, 200), Rep(97, 199) \o <<45>>}

BaseOf(kind) == IF kind = "name" THEN <<97>> ELSE Zero(LimbsOf(kind))

BaseVals(kinds) == [i \in 1..Len(kinds) |-> BaseOf(kinds[i])]

Encode(kind, v) == IF kind = "name" THEN v ELSE Decimal(v)

\* field values of a row: every combination of the few, and each edge value
\* in each field with the other fields at their base
WireVals(row) ==
    LET kinds == KindsOf(row) IN
    Tuples([i \in 1..Len(kinds) |-> FewOf(kinds[i])])
    \cup UNION {{[BaseVals(kinds) EXCEPT ![p] = e] : e \in EdgeOf(kinds[p])} :
                   p \in 1..Len(kinds)}

\* inputs of the wire grammar: a command with in-range field values, each
\* written as the grammar says
WireInputsOf(r) ==
    {[kind |-> "wire", row |-> r, vals |-> vs,
      toks |-> [i \in 1..Len(vs) |-> Encode(KindsOf(r)[i], vs[i])]] :
        vs \in WireVals(r)}

WireInputs == UNION {WireInputsOf(r) : r \in 1..Len(WireGrammar)}

\* ---- numeric tokens of every shape ----

\* leading zeros put before a digit string
MaxLeadZeros == 2

\* numbers two limbs wider than a field of the given kind: a value is in
\* the field's range exactly when its two upper limbs are 0
WideOf(kind) ==
    LET ends == {0, 9, Limb - 1} IN
    {lo \o <<u, t>> :
        lo \in (IF kind = "u32" THEN {<<a, b>> : a \in ends, b \in ends}
                ELSE {<<a, b, b, d>> : a \in ends, b \in {0, Limb - 1}, d \in ends}),
        u \in {0, 1, Limb - 1}, t \in {0, 1}}

\* bytes that are no digit: - + / : a . space NUL 0xff
NonDigits == {45, 43, 47, 58, 97, 46, SP, 0, 255}

\* the ways a numeric token is written: its digits only, or with a byte that
\* is no digit before, inside or after them, or nothing at all
DigitsOnly == [form |-> "digits", byte |-> 48]

LexForms ==
    {DigitsOnly}
    \cup {[form |-> f, byte |-> b] : f \in {"pre", "mid", "post"}, b \in NonDigits}
    \cup {[form |-> "empty", byte |-> 48]}

NumToken(x, lead, lex) ==
    LET d == Rep(48, lead) \o Decimal(x) IN
    IF lex.form = "empty" THEN <<>>
    ELSE IF lex.form = "pre" THEN <<lex.byte>> \o d
    ELSE IF lex.form = "mid" THEN <<Head(d), lex.byte>> \o Tail(d)
    ELSE IF lex.form = "post" THEN d \o <<lex.byte>>
    ELSE d

\* field p of row r written as the token of x, lead and lex, the other
\* fields at their base
NumTokInput(r, p, x, lead, lex) ==
    [kind |-> "numtok", row |-> r, pos |-> p, x |-> x, lead |-> lead, lex |-> lex,
     toks |-> [i \in 1..Len(KindsOf(r)) |->
                  IF i = p THEN NumToken(x, lead, lex)
                  ELSE Encode(KindsOf(r)[i], BaseOf(KindsOf(r)[i]))]]

NumTokInputsAt(r, p) ==
    LET kind == KindsOf(r)[p]
        w == LimbsOf(kind)
    IN  {NumTokInput(r, p, x, lead, DigitsOnly) :
             x \in WideOf(kind), lead \in 0..MaxLeadZeros}
        \cup {NumTokInput(r, p, x, 0, lex) :
             x \in {Zero(w + 2), Rep(Limb - 1, w) \o <<0, 0>>}, lex \in LexForms}

NumTokInputs ==
    UNION {UNION {NumTokInputsAt(r, p) :
                     p \in {q \in 1..Len(KindsOf(r)) : KindsOf(r)[q] # "name"}} :
              r \in 1..Len(WireGrammar)}

\* ---- tube names of every shape ----

\* short names are all the byte strings up to this length over NameBytes
MaxNameLen == 2

\* a Z 0 - # +
NameBytes == {97, 90, 48, 45, 35, 43}

NameSamples ==
    SeqsUpTo(NameBytes, MaxNameLen)
    \cup {<<c>> : c \in 0..255}
    \cup {<<97, c>> : c \in 0..255}
    \cup {Rep(97, 199), Rep(97, 200), Rep(97, 201),
          Rep(97, 199) \o <<45>>, <<45>> \o Rep(97, 199),
          Rep(97, 199) \o <<35>>, Rep(97, 200) \o <<45>>, Rep(97, 255)}

NameInputsAt(r, p) ==
    {[kind |-> "name", row |-> r, pos |-> p, name |-> n,
      toks |-> [i \in 1..Len(KindsOf(r)) |->
                   IF i = p THEN n ELSE Encode(KindsOf(r)[i], BaseOf(KindsOf(r)[i]))]] :
        n \in NameSamples}

NameInputs ==
    UNION {UNION {NameInputsAt(r, p) :
                     p \in {q \in 1..Len(KindsOf(r)) : KindsOf(r)[q] = "name"}} :
              r \in 1..Len(WireGrammar)}

\* ---- lines of any shape ----

\* the command names of the wire grammar
CommandNames == {WireGrammar[r].wire : r \in 1..Len(WireGrammar)}

\* bytes put after, or in place of, a byte of a command name:
\* - 0 NUL CR LF TAB 0xff s
NearBytes == {45, 48, 0, CR, LF, 9, 255, 115}

\* leading tokens: nothing, every command name, a name cut short by one byte,
\* a name with one more byte, a name in upper case at its first byte, and
\* every single byte but the space
LeadTokens ==
    {<<>>}
    \cup CommandNames
    \cup {SubSeq(n, 1, Len(n) - 1) : n \in CommandNames}
    \cup {n \o <<c>> : n \in CommandNames, c \in NearBytes}
    \cup {<<n[1] - 32>> \o Tail(n) : n \in CommandNames}
    \cup {<<c>> : c \in (0..255) \ {SP}}
    \cup {<<115, 121, 110, 116, 97, 120, 45, 101, 114, 114, 111, 114>>}  \* b"syntax-error"

\* what follows the leading token: nothing, or a space and more
LineTails ==
    {<<>>, <<SP>>, <<SP, SP>>, <<SP, 48>>, <<SP, 97>>, <<SP, 255>>,
     <<SP, 48, SP, 48>>, <<SP, 48, SP, 48, SP, 48>>,
     <<SP, 48, SP, 48, SP, 48, SP, 48>>,
     <<SP, 48, SP, 48, SP, 48, SP, 48, SP, 48>>}

RawInputs ==
    {[kind |-> "raw", bytes |-> t \o tl] : t \in LeadTokens, tl \in LineTails}
    \cup {[kind |-> "raw", bytes |-> <<SP>> \o t \o tl] :
             t \in CommandNames \cup {<<>>, <<120>>}, tl \in LineTails}

\* the ways the fields of a line are laid out: as the grammar says; without
\* the last field; with one more field; with a trailing space or two; with
\* the space before field p doubled, or replaced by a TAB, or left out; with
\* field p empty
Layouts(n) ==
    {[form |-> f, pos |-> 0] :
        f \in {"exact", "missing", "extra", "trailing_space", "trailing_spaces"}}
    \cup {[form |-> f, pos |-> q] :
             f \in {"double_space", "tab", "no_space", "empty_field"}, q \in 1..n}

\* the line of row r laid out as lay, every field at its base value
LaidOut(r, lay) ==
    LET kinds == KindsOf(r)
        n == Len(kinds)
        tok(i) == Encode(kinds[i], BaseOf(kinds[i]))
        sep(i) == IF lay.pos # i THEN <<SP>>
                  ELSE IF lay.form = "double_space" THEN <<SP, SP>>
                  ELSE IF lay.form = "tab" THEN <<9>>
                  ELSE IF lay.form = "no_space" THEN <<>>
                  ELSE <<SP>>
        fld(i) == IF lay.pos = i /\ lay.form = "empty_field" THEN <<>> ELSE tok(i)
        upto == IF lay.form = "missing" THEN n - 1 ELSE n
        body == Concat([i \in 1..upto |-> sep(i) \o fld(i)])
    IN  WireGrammar[r].wire \o body
        \o (IF lay.form = "extra" THEN <<SP, 48>>
            ELSE IF lay.form = "trailing_space" THEN <<SP>>
            ELSE IF lay.form = "trailing_spaces" THEN <<SP, SP>>
            ELSE <<>>)

LayoutInputsOf(r) ==
    {[kind |-> "layout", row |-> r, lay |-> lay, bytes |-> LaidOut(r, lay)] :
        lay \in {l \in Layouts(Len(KindsOf(r))) :
                    l.form = "missing" => Len(KindsOf(r)) > 0}}

LayoutInputs == UNION {LayoutInputsOf(r) : r \in 1..Len(WireGrammar)}

\* the line of an input
LineOf(g) ==
    IF g.kind \in {"raw", "layout"} THEN g.bytes ELSE Render(g.row, g.toks)

Inputs == WireInputs \cup NumTokInputs \cup NameInputs \cup RawInputs \cup LayoutInputs

InitPS ==
    /\ NewLineReader
    /\ ConnIdle
    /\ SrvIdle
    /\ gen \in Inputs
    /\ line = LineOf(gen)
    /\ result = NotParsed
    /\ EncoderIdle

\* the line is handed to try_from
ParseLine ==
    /\ gen.kind # "none"
    /\ result = NotParsed
    /\ result' = try_from(line)
    /\ UNCHANGED <<lrvars, cnvars, srvvars, gen, line, resp, wire>>

NextPS == ParseLine

SpecPS == InitPS /\ [][NextPS]_vars

Parsed == result # NotParsed

BadFormat == [ok |-> FALSE, err |-> "BadFormat", cmd |-> NoCmd]

C8_NumericRoundTrip ==
    (gen.kind = "wire" /\ Parsed) =>
        \A i \in 1..Len(gen.vals) :
            KindsOf(gen.row)[i] # "name" =>
                /\ result.ok
                /\ result.cmd.fields[WireGrammar[gen.row].fields[i]] = gen.vals[i]

\* C8 witness: "put 0 0 0 4294967295" parsed with n_bytes = 2^32 - 1.
C8_Witness ==
    /\ gen.kind = "wire"
    /\ WireGrammar[gen.row].wire = B_put
    /\ gen.toks[4] = <<52, 50, 57, 52, 57, 54, 55, 50, 57, 53>>
    /\ result.ok
    /\ result.cmd.fields["n_bytes"] = <<Limb - 1, Limb - 1>>

\* the field under test of a numtok or name input
FieldUnderTest == WireGrammar[gen.row].fields[gen.pos]

\* C9: a numeric token that denotes a value above the field's maximum, or
\* holds a byte that is no digit, or is empty, makes the parse BadFormat; and
\* a value that is returned is the exact value of the digits, never a wrapped
\* or truncated one.
C9_OverflowAndLexicalChecks ==
    (gen.kind = "numtok" /\ Parsed) =>
        LET w == LimbsOf(KindOf(FieldUnderTest))
            exceeds == \E i \in (w + 1)..Len(gen.x) : gen.x[i] # 0
            lexbad == gen.lex.form # "digits"
        IN  /\ (lexbad \/ exceeds) => result = BadFormat
            /\ result.ok => result.cmd.fields[FieldUnderTest] = SubSeq(gen.x, 1, w)

\* C9 witness: "put 0 0 0 4294967296" (2^32 in a 32-bit field) parsed to
\* BadFormat.
C9_Witness ==
    /\ gen.kind = "numtok"
    /\ WireGrammar[gen.row].wire = B_put
    /\ gen.pos = 4
    /\ gen.toks[4] = <<52, 50, 57, 52, 57, 54, 55, 50, 57, 54>>
    /\ result = BadFormat

\* a tube name as the protocol allows it
ValidName(n) ==
    /\ Len(n) >= 1
    /\ Len(n) <= 200
    /\ \A i \in 1..Len(n) :
          n[i] \in (65..90) \cup (97..122) \cup (48..57)
                      \cup {43, 47, 59, 46, 36, 95, 40, 41, 45}
    /\ n[1] # 45

\* C10: a command with a tube field parses exactly when the name written
\* there is 1 to 200 allowed bytes not starting with '-', and the name is
\* then returned unchanged; with any other name the parse is BadFormat.
C10_TubeNameAccepted ==
    (gen.kind = "name" /\ Parsed) =>
        IF ValidName(gen.name)
        THEN result.ok /\ result.cmd.fields["tube"] = gen.name
        ELSE result = BadFormat

\* C10 witness: pause-tube with a 200-byte name ending in '-' parsed, the
\* name returned whole.
C10_Witness ==
    /\ gen.kind = "name"
    /\ WireGrammar[gen.row].wire = B_pause_tube
    /\ gen.name = Rep(97, 199) \o <<45>>
    /\ result.ok
    /\ Len(result.cmd.fields["tube"]) = 200

\* the bytes of a line before its first space, or all of it
LeadingToken(l) ==
    LET sp == {i \in 1..Len(l) : l[i] = SP} IN
    IF sp = {} THEN l ELSE SubSeq(l, 1, Min(sp) - 1)

UnknownCommand == [ok |-> FALSE, err |-> "UnknownCommand", cmd |-> NoCmd]

\* C11: parsing a line gives UnknownCommand exactly when the line's leading
\* token is not empty and is none of the command names, whatever follows it;
\* an empty line and a line starting with a space give BadFormat.
C11_UnknownCommandExactly ==
    Parsed =>
        /\ (result = UnknownCommand)
              <=> (LeadingToken(line) # <<>> /\ LeadingToken(line) \notin CommandNames)
        /\ (line = <<>> \/ Head(line) = SP) => result = BadFormat

\* C11 witness: "reserve-jo 0 0", whose leading token is a command name cut
\* short, parsed to UnknownCommand.
C11_Witness ==
    /\ gen.kind = "raw"
    /\ line = SubSeq(B_reserve_job, 1, 10) \o <<SP, 48, SP, 48>>
    /\ result = UnknownCommand

\* the pieces of a line between its spaces: one more than it has spaces
RECURSIVE SplitSP(_)
SplitSP(l) ==
    LET sp == {i \in 1..Len(l) : l[i] = SP} IN
    IF sp = {} THEN <<l>>
    ELSE <<SubSeq(l, 1, Min(sp) - 1)>> \o SplitSP(SubSeq(l, Min(sp) + 1, Len(l)))

\* the number of fields of the command of the given name
Arity(name) ==
    Len(WireGrammar[CHOOSE r \in 1..Len(WireGrammar) : WireGrammar[r].wire = name].fields)

\* the line is a name and exactly that command's number of fields, none
\* empty, each after exactly one space, and nothing more
RightLayout(l) ==
    LET ps == SplitSP(l) IN
    /\ Len(ps) = 1 + Arity(ps[1])
    /\ \A i \in 1..Len(ps) : ps[i] # <<>>

-----------------------------------------------------------------------------
(* BeanstalkResponse and its serialisation (src/types/protocol.rs) *)

\* the responses that are a fixed line
FixedArms == <<
    [variant |-> "OutOfMemory", bytes |-> <<79, 85, 84, 95, 79, 70, 95, 77, 69, 77, 79, 82, 89, 13, 10>>],  \* b"OUT_OF_MEMORY\r\n"
    [variant |-> "InternalError", bytes |-> <<73, 78, 84, 69, 82, 78, 65, 76, 95, 69, 82, 82, 79, 82, 13, 10>>],  \* b"INTERNAL_ERROR\r\n"
    [variant |-> "BadFormat", bytes |-> <<66, 65, 68, 95, 70, 79, 82, 77, 65, 84, 13, 10>>],  \* b"BAD_FORMAT\r\n"
    [variant |-> "UnknownCommand", bytes |-> <<85, 78, 75, 78, 79, 87, 78, 95, 67, 79, 77, 77, 65, 78, 68, 13, 10>>],  \* b"UNKNOWN_COMMAND\r\n"
    [variant |-> "ExpectedCRLF", bytes |-> <<69, 88, 80, 69, 67, 84, 69, 68, 95, 67, 82, 76, 70, 13, 10>>],  \* b"EXPECTED_CRLF\r\n"
    [variant |-> "JobTooBig", bytes |-> <<74, 79, 66, 95, 84, 79, 79, 95, 66, 73, 71, 13, 10>>],  \* b"JOB_TOO_BIG\r\n"
    [variant |-> "Draining", bytes |-> <<68, 82, 65, 73, 78, 73, 78, 71, 13, 10>>],  \* b"DRAINING\r\n"
    [variant |-> "DeadlineSoon", bytes |-> <<68, 69, 65, 68, 76, 73, 78, 69, 95, 83, 79, 79, 78, 13, 10>>],  \* b"DEADLINE_SOON\r\n"
    [variant |-> "TimedOut", bytes |-> <<84, 73, 77, 69, 68, 95, 79, 85, 84, 13, 10>>],  \* b"TIMED_OUT\r\n"
    [variant |-> "NotFound", bytes |-> <<78, 79, 84, 95, 70, 79, 85, 78, 68, 13, 10>>],  \* b"NOT_FOUND\r\n"
    [variant |-> "Released", bytes |-> <<82, 69, 76, 69, 65, 83, 69, 68, 13, 10>>],  \* b"RELEASED\r\n"
    [variant |-> "NotIgnored", bytes |-> <<78, 79, 84, 95, 73, 71, 78, 79, 82, 69, 68, 13, 10>>],  \* b"NOT_IGNORED\r\n"
    [variant |-> "Kicked", bytes |-> <<75, 73, 67, 75, 69, 68, 13, 10>>],  \* b"KICKED\r\n"
    [variant |-> "Paused", bytes |-> <<80, 65, 85, 83, 69, 68, 13, 10>>],  \* b"PAUSED\r\n"
    [variant |-> "Deleted", bytes |-> <<68, 69, 76, 69, 84, 69, 68, 13, 10>>],  \* b"DELETED\r\n"
    [variant |-> "Buried", bytes |-> <<66, 85, 82, 73, 69, 68, 13, 10>>],  \* b"BURIED\r\n"
    [variant |-> "Touched", bytes |-> <<84, 79, 85, 67, 72, 69, 68, 13, 10>>]  \* b"TOUCHED\r\n"
    >>

FixedVariants == {FixedArms[i].variant : i \in 1..Len(FixedArms)}

\* the leading words of the formatted responses, each with its space
W_INSERTED == <<73, 78, 83, 69, 82, 84, 69, 68, 32>>  \* "INSERTED "
W_BURIED == <<66, 85, 82, 73, 69, 68, 32>>  \* "BURIED "
W_USING == <<85, 83, 73, 78, 71, 32>>  \* "USING "
W_RESERVED == <<82, 69, 83, 69, 82, 86, 69, 68, 32>>  \* "RESERVED "
W_WATCHING == <<87, 65, 84, 67, 72, 73, 78, 71, 32>>  \* "WATCHING "
W_FOUND == <<70, 79, 85, 78, 68, 32>>  \* "FOUND "
W_KICKED == <<75, 73, 67, 75, 69, 68, 32>>  \* "KICKED "
W_OK == <<79, 75, 32>>  \* "OK "

\* the responses with a job body after the header line
BodyVariants == {"Reserved", "Found"}

\* the responses with a YAML document after the header line
YamlVariants == {"OkStatsJob", "OkStats", "OkListTubes", "OkStatsTube"}

\* a usize in limbs
usize(n) == <<n % Limb, n \div Limb, 0, 0>>

MutLenWithTerminator(data) == usize(Len(data) + 2)
\* data.len() as format! prints it
data_len(data) == usize(Len(data))

\* serde_yaml::to_string(data).unwrap(): the document the library renders.
\* A stats value or tube list is represented by that document, which may be
\* any string.
to_string(data) == data.yaml

\* BeanstalkResponse::serialise_beanstalk
BeanstalkResponse_serialise_beanstalk(self) ==
    CASE self.variant = "Inserted" -> W_INSERTED \o Decimal(self.id) \o <<CR, LF>>
      [] self.variant = "BuriedID" -> W_BURIED \o Decimal(self.id) \o <<CR, LF>>
      [] self.variant = "Using" -> W_USING \o self.tube \o <<CR, LF>>
      [] self.variant = "Reserved" ->
            W_RESERVED \o Decimal(self.id) \o <<SP>> \o Decimal(data_len(self.data)) \o <<CR, LF>>
                \o self.data \o <<CR, LF>>
      [] self.variant = "Watching" -> W_WATCHING \o Decimal(self.count) \o <<CR, LF>>
      [] self.variant = "Found" ->
            W_FOUND \o Decimal(self.id) \o <<SP>> \o Decimal(data_len(self.data)) \o <<CR, LF>>
                \o self.data \o <<CR, LF>>
      [] self.variant = "KickedCount" -> W_KICKED \o Decimal(self.count) \o <<CR, LF>>
      [] self.variant \in YamlVariants ->
            LET data == to_string(self.data) IN
            W_OK \o Decimal(data_len(data)) \o <<CR, LF>> \o data \o <<CR, LF>>
      [] OTHER -> FixedArms[CHOOSE i \in 1..Len(FixedArms) : FixedArms[i].variant = self.variant].bytes

\* ---- the responses serialised ----

\* job ids and counts: 0, 1, 10, 2^16 and the largest
EdgeU64 == {<<0, 0, 0, 0>>, <<1, 0, 0, 0>>, <<10, 0, 0, 0>>, <<0, 1, 0, 0>>,
            <<Limb - 1, Limb - 1, Limb - 1, Limb - 1>>}
EdgeU32 == {<<0, 0>>, <<2, 0>>, <<10, 0>>, <<0, 1>>, <<Limb - 1, Limb - 1>>}

\* payloads of every content up to this length
MaxPayload == 3

\* a payload byte is a letter, CR or LF
PayloadBytes == {97, CR, LF}

\* job bodies: every short one, the empty one included, and longer ones
\* whose length has two and three digits
Payloads ==
    SeqsUpTo(PayloadBytes, MaxPayload)
    \cup {Rep(97, 10), Rep(97, 9) \o <<CR, LF>>, Rep(LF, 100), Rep(97, 255) \o <<CR>>}

\* YAML documents: any short string, and "[]\n", "- - 97\n", "id: 1\npri: 0\n"
YamlTexts ==
    SeqsUpTo(PayloadBytes, MaxPayload)
    \cup {<<91, 93, 10>>, <<45, 32, 45, 32, 57, 55, 10>>, <<105, 100, 58, 32, 49, 10, 112, 114, 105, 58, 32, 48, 10>>}

Responses ==
    {[variant |-> v] : v \in FixedVariants}
    \cup {[variant |-> v, id |-> i] : v \in {"Inserted", "BuriedID"}, i \in EdgeU64}
    \cup {[variant |-> "Using", tube |-> t] : t \in NamesFew}
    \cup {[variant |-> v, id |-> i, data |-> d] : v \in BodyVariants, i \in EdgeU64, d \in Payloads}
    \cup {[variant |-> "Watching", count |-> c] : c \in EdgeU32}
    \cup {[variant |-> "KickedCount", count |-> c] : c \in EdgeU64}
    \cup {[variant |-> v, data |-> [yaml |-> y]] : v \in YamlVariants, y \in YamlTexts}

InitEnc ==
    /\ NewLineReader
    /\ ConnIdle
    /\ SrvIdle
    /\ gen = [kind |-> "none"]
    /\ line = <<>>
    /\ result = NotParsed
    /\ resp \in Responses
    /\ wire = NotSerialised

\* the response is serialised
Serialise ==
    /\ resp # NoResp
    /\ wire = NotSerialised
    /\ wire' = BeanstalkResponse_serialise_beanstalk(resp)
    /\ UNCHANGED <<lrvars, cnvars, srvvars, gen, line, result, resp>>

NextEnc == Serialise

SpecEnc == InitEnc /\ [][NextEnc]_vars

\* the payload a response carries
PayloadOf(r) == IF r.variant \in BodyVariants THEN r.data ELSE r.data.yaml

\* the words of the header line of a payload-carrying response
HeaderWords(r) ==
    IF r.variant = "Reserved" THEN <<W_RESERVED, Decimal(r.id)>>
    ELSE IF r.variant = "Found" THEN <<W_FOUND, Decimal(r.id)>>
    ELSE <<W_OK>>

\* C27: every serialised response ends with CR LF; the header line of a
\* RESERVED, FOUND or OK response is the word, the id for the first two, and
\* a number n read back as the parser reads a number; n is the count of bytes
\* between the CR LF of the header and the final CR LF, and those bytes are
\* the payload, whatever it holds.
C27_ResponseEncoding ==
    wire # NotSerialised =>
        /\ Len(wire) >= 2
        /\ SubSeq(wire, Len(wire) - 1, Len(wire)) = <<CR, LF>>
        /\ resp.variant \in BodyVariants \cup YamlVariants =>
              LET hdr == Head(CompleteLines(wire))
                  toks == SplitSP(hdr)
                  words == HeaderWords(resp)
                  last == toks[Len(toks)]
                  n == Accumulate(last, 1, Zero(LimbsOf("u64")))
                  payload == SubSeq(wire, Len(hdr) + 3, Len(wire) - 2)
              IN  /\ Len(toks) = Len(words) + 1
                  /\ toks[1] \o <<SP>> = words[1]
                  /\ \A i \in 2..Len(words) : toks[i] = words[i]
                  /\ Len(last) > 0
                  /\ n.some
                  /\ n.v = usize(Len(payload))
                  /\ payload = PayloadOf(resp)

\* C27 witness: RESERVED for the largest id with a body that is CR LF has
\* been serialised.
C27_Witness ==
    /\ resp = [variant |-> "Reserved", id |-> Rep(Limb - 1, 4), data |-> <<CR, LF>>]
    /\ wire = W_RESERVED \o Decimal(Rep(Limb - 1, 4)) \o <<SP, 50, CR, LF, CR, LF, CR, LF>>

-----------------------------------------------------------------------------
(* handle_conn: the connection handler of the server binary *)

\* buf.iter().skip(maybe_crlf_from).tuple_windows().position(..) of the
\* while-let; -1 stands for None
conn_position(b, from) ==
    LET hits == {i \in (from + 1)..(Len(b) - 1) : b[i] = CR /\ b[i + 1] = LF}
    IN  IF hits = {} THEN -1 ELSE Min(hits) - (from + 1)

MutConnNoPullBack(len, n) == IF len >= n THEN len - n ELSE 0

\* buf.len().checked_sub(bytes_read + 1).unwrap_or(0)
conn_cursor(len, n) == IF len >= n + 1 THEN len - (n + 1) ELSE 0

MutConnCursorKept(from) == from
\* maybe_crlf_from = 0 at the end of the while-let body
conn_cursor_after_write(from) == 0

R_CMD_OK == <<67, 77, 68, 95, 79, 75, 13, 10>>  \* b"CMD_OK\r\n"
R_BAD_FORMAT == <<66, 65, 68, 95, 70, 79, 82, 77, 65, 84, 13, 10>>  \* b"BAD_FORMAT\r\n"
R_UNKNOWN_COMMAND == <<85, 78, 75, 78, 79, 87, 78, 95, 67, 79, 77, 77, 65, 78, 68, 13, 10>>  \* b"UNKNOWN_COMMAND\r\n"
R_EXPECTED_CRLF == <<69, 88, 80, 69, 67, 84, 69, 68, 95, 67, 82, 76, 70, 13, 10>>  \* b"EXPECTED_CRLF\r\n"

MutAlwaysBadFormat(e) == R_BAD_FORMAT
\* impl BeanstalkSerialisable for ParsingError
serialise_beanstalk(e) ==
    IF e = "BadFormat" THEN R_BAD_FORMAT ELSE R_UNKNOWN_COMMAND

\* let resp = match try_into(cmd) { Ok(c) => CMD_OK, Err(e) => e.serialise_beanstalk() }
Respond(cmd) ==
    LET r == try_from(cmd) IN
    IF r.ok THEN R_CMD_OK ELSE serialise_beanstalk(r.err)

\* handle_conn returns r: its locals (buf, bytes_read, maybe_crlf_from,
\* resp_buf) are dropped
Return(r) ==
    /\ c_pc' = "done"
    /\ c_ret' = r
    /\ c_buf' = <<>>
    /\ c_from' = 0
    /\ c_bytes_read' = 0
    /\ c_resp_buf' = <<>>
    /\ c_batch' = 0

\* The head of the while-let on buffer b and cursor from, n being
\* bytes_read and w the write_all_buf calls made since the read: a frame is
\* split off, parsed and its response is to be written; or the loop is over
\* and the handler returns (n = 0) or goes to the next iteration of the outer
\* loop, where bytes_read and maybe_crlf_from are not in scope (modelled as 0).
ConnLoop(b, from, n, w) ==
    LET eoc == conn_position(b, from) IN
    IF eoc # -1
    THEN LET k == from + eoc + 2
             cmd == SubSeq(b, 1, k - 2)
         IN  /\ c_buf' = SubSeq(b, k + 1, Len(b))
             /\ c_from' = from
             /\ c_bytes_read' = n
             /\ c_parsed' = Append(c_parsed, cmd)
             /\ c_resp_buf' = Respond(cmd)
             /\ c_batch' = w + 1
             /\ c_pc' = "write"
             /\ c_ret' = c_ret
    ELSE /\ c_parsed' = c_parsed
         /\ IF n = 0
            THEN Return("Ok")
            ELSE /\ c_buf' = b
                 /\ c_from' = 0
                 /\ c_bytes_read' = 0
                 /\ c_resp_buf' = <<>>
                 /\ c_batch' = 0
                 /\ c_pc' = "read"
                 /\ c_ret' = c_ret

\* conn.read_buf(&mut buf) completes with the next n > 0 bytes of the client
ConnReadChunk(n) ==
    LET chunk == SubSeq(c_todo, 1, n) IN
    /\ c_pc = "read"
    /\ c_todo' = SubSeq(c_todo, n + 1, Len(c_todo))
    /\ c_delivered' = c_delivered \o chunk
    /\ ConnLoop(c_buf \o chunk, conn_cursor(Len(c_buf) + n, n), n, 0)
    /\ UNCHANGED <<cancel, c_out>>

\* conn.read_buf(&mut buf) completes with n > 0 bytes
ConnReadData ==
    /\ \E n \in 1..Len(c_todo) : ConnReadChunk(n)
    /\ UNCHANGED <<lrvars, psvars, srvvars>>

\* conn.read_buf(&mut buf) completes with 0 bytes: the client has sent all
\* it had and closed its sending side
ConnReadZeroStep ==
    /\ c_pc = "read"
    /\ c_todo = <<>>
    /\ ConnLoop(c_buf, conn_cursor(Len(c_buf), 0), 0, 0)
    /\ UNCHANGED <<cancel, c_todo, c_delivered, c_out>>

ConnReadZero ==
    /\ ConnReadZeroStep
    /\ UNCHANGED <<lrvars, psvars, srvvars>>

\* conn.read_buf(&mut buf) fails: n.context("reading")? returns the error
ConnReadErr ==
    /\ c_pc = "read"
    /\ Return("Err")
    /\ UNCHANGED <<cancel, c_todo, c_delivered, c_parsed, c_out, lrvars, psvars, srvvars>>

\* conn.write_all_buf(&mut resp_buf) makes progress: the socket takes n
\* bytes; once resp_buf is empty the write is over, maybe_crlf_from is
\* zeroed and the while-let goes on
ConnWrite ==
    /\ c_pc = "write"
    /\ \E n \in 1..Len(c_resp_buf) :
        /\ c_out' = c_out \o SubSeq(c_resp_buf, 1, n)
        /\ IF n = Len(c_resp_buf)
           THEN ConnLoop(c_buf, conn_cursor_after_write(c_from), c_bytes_read, c_batch)
           ELSE /\ c_resp_buf' = SubSeq(c_resp_buf, n + 1, Len(c_resp_buf))
                /\ UNCHANGED <<c_buf, c_from, c_bytes_read, c_parsed, c_pc, c_ret,
                               c_batch>>
    /\ UNCHANGED <<cancel, c_todo, c_delivered, lrvars, psvars, srvvars>>

\* conn.write_all_buf(&mut resp_buf) fails: n? returns the error
ConnWriteErr ==
    /\ c_pc = "write"
    /\ Return("Err")
    /\ UNCHANGED <<cancel, c_todo, c_delivered, c_parsed, c_out, lrvars, psvars, srvvars>>

\* the `_ = cancel.cancelled() => return Ok(())` branch of either select!
ConnCancelled ==
    /\ c_pc \in {"read", "write"}
    /\ cancel
    /\ Return("Ok")
    /\ UNCHANGED <<cancel, c_todo, c_delivered, c_parsed, c_out, lrvars, psvars, srvvars>>

\* begin_handle after handle_conn has returned: conn.shutdown().await, then
\* ret is returned and the socket dropped; a failed shutdown returns its
\* error in place of ret
ConnShutdown ==
    /\ c_pc = "done"
    /\ c_pc' = "closed"
    /\ \/ c_ret' = c_ret
       \/ c_ret' = "Err"
    /\ UNCHANGED <<c_buf, c_from, c_bytes_read, c_resp_buf, cancel, c_todo,
                   c_delivered, c_parsed, c_out, c_batch, lrvars, psvars, srvvars>>

\* main's ctrl-c task: cancel.cancel()
Cancel ==
    /\ ~cancel
    /\ c_pc \in {"read", "write", "done"}
    /\ cancel' = TRUE
    /\ UNCHANGED <<c_buf, c_from, c_bytes_read, c_pc, c_resp_buf, c_ret, c_todo,
                   c_delivered, c_parsed, c_out, c_batch, lrvars, psvars, srvvars>>

\* ---- what the client sends ----

\* a client pipelines at most this many requests
MaxRequests == 2

Q_put_crlf_body == <<112, 117, 116, 32, 48, 32, 48, 32, 48, 32, 50, 13, 10, 13, 10, 13, 10>>  \* b"put 0 0 0 2\r\n" b"\r\n" b"\r\n": the body is CR LF
Q_put_unterminated == <<112, 117, 116, 32, 48, 32, 48, 32, 48, 32, 49, 13, 10, 97, 98, 13, 10>>  \* b"put 0 0 0 1\r\n" b"a" b"b\r\n": no CR LF after the body
Q_use_a == <<117, 115, 101, 32, 97, 13, 10>>  \* b"use a\r\n"
Q_watch_b == <<119, 97, 116, 99, 104, 32, 98, 13, 10>>  \* b"watch b\r\n"
Q_quit == <<113, 117, 105, 116, 13, 10>>  \* b"quit\r\n"
Q_unknown == <<120, 13, 10>>  \* b"x\r\n"
Q_bad == <<117, 115, 101, 32, 13, 10>>  \* b"use \r\n"
Q_partial == <<113, 117>>  \* b"qu": a line never terminated

\* b"pause-tube ", a name of 200 bytes, a space and eleven zeros: a line of
\* 225 bytes with its CR LF
Q_long == B_pause_tube \o <<SP>> \o Rep(97, 200) \o <<SP>> \o Rep(48, 11) \o <<CR, LF>>

Q_ignore_default == <<105, 103, 110, 111, 114, 101, 32, 100, 101, 102, 97, 117, 108, 116, 13, 10>>  \* b"ignore default\r\n"
Q_kick == <<107, 105, 99, 107, 32, 53, 13, 10>>  \* b"kick 5\r\n"
Q_put_reserve == <<112, 117, 116, 32, 53, 32, 48, 32, 49, 32, 48, 13, 10, 13, 10, 112, 117, 116, 32, 49, 32, 48, 32, 49, 32, 49, 13, 10, 97, 13, 10, 114, 101, 115, 101, 114, 118, 101, 13, 10>>  \* b"put 5 0 1 0\r\n\r\nput 1 0 1 1\r\na\r\nreserve\r\n": two jobs, the second more urgent, then reserve
Q_put_peek == <<112, 117, 116, 32, 48, 32, 48, 32, 49, 32, 49, 13, 10, 97, 13, 10, 112, 101, 101, 107, 32, 49, 13, 10>>  \* b"put 0 0 1 1\r\na\r\npeek 1\r\n": a job of one byte, then peek

\* the requests a client pipelines in any order
Requests == {Q_quit, Q_unknown, Q_bad, Q_partial}

\* what a client sends: up to MaxRequests pipelined requests, a put with its
\* body, use and watch in a row, one long line, or a short session with the
\* job store
ClientStreams ==
    {Concat(rs) : rs \in SeqsUpTo(Requests, MaxRequests)}
    \cup {Q_put_crlf_body, Q_put_unterminated, Q_use_a \o Q_watch_b, Q_long}
    \cup {Q_ignore_default, Q_kick, Q_put_reserve, Q_put_peek}

\* let mut buf = BytesMut::with_capacity(224), on a fresh connection
InitConn ==
    /\ NewLineReader
    /\ ParserIdle
    /\ SrvIdle
    /\ c_buf = <<>>
    /\ c_from = 0
    /\ c_bytes_read = 0
    /\ c_pc = "read"
    /\ c_resp_buf = <<>>
    /\ c_ret = "None"
    /\ cancel = FALSE
    /\ c_todo \in ClientStreams
    /\ c_delivered = <<>>
    /\ c_parsed = <<>>
    /\ c_out = <<>>
    /\ c_batch = 0

NextConn ==
    \/ ConnReadData
    \/ ConnReadZero
    \/ ConnReadErr
    \/ ConnWrite
    \/ ConnWriteErr
    \/ ConnCancelled
    \/ ConnShutdown
    \/ Cancel

SpecConn == InitConn /\ [][NextConn]_vars

-----------------------------------------------------------------------------
(* handle_conn and LineReader::read_line on the same socket reads *)

\* the streams both are fed are at most this long
MaxEqStream == 5

EqStreams == SeqsUpTo(StreamBytes, MaxEqStream)

InitEq ==
    /\ NewLineReader
    /\ ParserIdle
    /\ SrvIdle
    /\ c_buf = <<>>
    /\ c_from = 0
    /\ c_bytes_read = 0
    /\ c_pc = "read"
    /\ c_resp_buf = <<>>
    /\ c_ret = "None"
    /\ cancel = FALSE
    /\ c_todo \in EqStreams
    /\ c_delivered = <<>>
    /\ c_parsed = <<>>
    /\ c_out = <<>>
    /\ c_batch = 0

\* one read_buf result of n > 0 bytes, given to the read_buf handle_conn is
\* suspended in and to the read_buf read_line is suspended in
EqRead ==
    /\ \E n \in 1..Len(c_todo) :
        /\ ConnReadChunk(n)
        /\ ReadBufChunk(SubSeq(c_todo, 1, n))
    /\ UNCHANGED <<psvars, srvvars>>

\* the client has half-closed: both read_buf calls complete with Ok(0)
EqZero ==
    /\ ConnReadZeroStep
    /\ ReadBufZeroStep
    /\ UNCHANGED <<psvars, srvvars>>

NextEq ==
    \/ EqRead
    \/ EqZero
    \/ ReadLineCall
    \/ ConnWrite

SpecEq == InitEq /\ [][NextEq]_vars

-----------------------------------------------------------------------------
(* Properties of handle_conn *)

\* a small number given in limbs; Limb when it does not fit one limb
Small(a) == IF \A i \in 2..Len(a) : a[i] = 0 THEN a[1] ELSE Limb

\* The command frames of stream s when a put header switches the framing to
\* its body: the n_bytes bytes after the header and the CR LF after them are
\* no command.  Framing stops at a body that is not complete yet or is not
\* followed by CR LF.
RECURSIVE BodyModeFrames(_)
BodyModeFrames(s) ==
    LET hits == {i \in 1..(Len(s) - 1) : s[i] = CR /\ s[i + 1] = LF} IN
    IF hits = {} THEN <<>>
    ELSE LET i == Min(hits)
             ln == SubSeq(s, 1, i - 1)
             rest == SubSeq(s, i + 2, Len(s))
             r == try_from(ln)
         IN  IF r.ok /\ r.cmd.variant = "Put"
             THEN LET n == Small(r.cmd.fields["n_bytes"]) IN
                  IF Len(rest) >= n + 2 /\ SubSeq(rest, n + 1, n + 2) = <<CR, LF>>
                  THEN <<ln>> \o BodyModeFrames(SubSeq(rest, n + 3, Len(rest)))
                  ELSE <<ln>>
             ELSE <<ln>> \o BodyModeFrames(rest)

\* some put body of stream s is complete and is not followed by CR LF
RECURSIVE BodyUnterminated(_)
BodyUnterminated(s) ==
    LET hits == {i \in 1..(Len(s) - 1) : s[i] = CR /\ s[i + 1] = LF} IN
    IF hits = {} THEN FALSE
    ELSE LET i == Min(hits)
             ln == SubSeq(s, 1, i - 1)
             rest == SubSeq(s, i + 2, Len(s))
             r == try_from(ln)
         IN  IF r.ok /\ r.cmd.variant = "Put"
             THEN LET n == Small(r.cmd.fields["n_bytes"]) IN
                  IF Len(rest) < n + 2 THEN FALSE
                  ELSE IF SubSeq(rest, n + 1, n + 2) # <<CR, LF>> THEN TRUE
                  ELSE BodyUnterminated(SubSeq(rest, n + 3, Len(rest)))
             ELSE BodyUnterminated(rest)

\* b occurs in s as a run of consecutive bytes
Occurs(b, s) == \E i \in 0..(Len(s) - Len(b)) : SubSeq(s, i + 1, i + Len(b)) = b

\* C6: after a put header the declared number of bytes and the CR LF after
\* them are the job body, never command frames: while every body is followed
\* by CR LF, the frames handed to the parser are command frames of the stream
\* framed that way; and once the handler has read a whole stream with a body
\* not followed by CR LF and returned normally without being cancelled, it
\* has answered EXPECTED_CRLF.
C6_PutBodyIsNotFramed ==
    /\ ~BodyUnterminated(c_delivered) => IsPrefix(c_parsed, BodyModeFrames(c_delivered))
    /\ (/\ BodyUnterminated(c_delivered)
        /\ c_pc \in {"done", "closed"} /\ c_ret = "Ok" /\ ~cancel /\ c_todo = <<>>)
          => Occurs(R_EXPECTED_CRLF, c_out)

\* a response without its CR LF
Bare(r) == SubSeq(r, 1, Len(r) - 2)

\* response line l answers frame f: BAD_FORMAT for a malformed frame,
\* UNKNOWN_COMMAND for an unrecognised one, anything else for a valid one
Answers(l, f) ==
    LET r == try_from(f) IN
    IF r.ok THEN l \notin {Bare(R_BAD_FORMAT), Bare(R_UNKNOWN_COMMAND)}
    ELSE IF r.err = "BadFormat" THEN l = Bare(R_BAD_FORMAT)
    ELSE l = Bare(R_UNKNOWN_COMMAND)

\* the handler returned on its own: no cancellation, no transport error
ReturnedNormally == c_pc \in {"done", "closed"} /\ c_ret = "Ok" /\ ~cancel

\* C13: every complete frame received gets exactly one response, in the
\* order of the frames: the i-th response line answers the i-th frame; while
\* a response is being written no later frame has been parsed, and when the
\* handler asks the socket for more bytes every frame received so far has
\* been parsed and answered in full.  An error response does not end the
\* connection: a handler that returns on its own has read all the client
\* sent and answered every frame of it.
C13_OneResponsePerFrame ==
    LET sent == CompleteLines(c_delivered)
        out == c_out \o (IF c_pc = "write" THEN c_resp_buf ELSE <<>>)
        lines == CompleteLines(c_out)
    IN  /\ IsPrefix(c_parsed, sent)
        /\ IsPrefix(lines, CompleteLines(out))
        /\ \A i \in 1..Len(lines) : i <= Len(c_parsed) /\ Answers(lines[i], c_parsed[i])
        /\ c_pc = "write" =>
              /\ c_resp_buf # <<>>
              /\ Len(CompleteLines(out)) = Len(c_parsed)
              /\ Len(lines) = Len(c_parsed) - 1
              /\ out = Rejoin(CompleteLines(out))
              /\ Answers(CompleteLines(out)[Len(c_parsed)], c_parsed[Len(c_parsed)])
        /\ c_pc = "read" =>
              /\ c_parsed = sent
              /\ Len(lines) = Len(sent)
              /\ c_out = Rejoin(lines)
        /\ ReturnedNormally =>
              /\ c_todo = <<>>
              /\ c_parsed = sent
              /\ Len(lines) = Len(sent)
              /\ c_out = Rejoin(lines)

\* C13 witness: "x" and "use " pipelined, the handler back in its read with
\* UNKNOWN_COMMAND then BAD_FORMAT written.
C13_Witness ==
    /\ c_pc = "read"
    /\ c_parsed = <<<<120>>, <<117, 115, 101, SP>>>>
    /\ c_out = R_UNKNOWN_COMMAND \o R_BAD_FORMAT

\* C14: "use a" and "watch b" sent together on a fresh connection are
\* answered USING a then WATCHING 2, and nothing else.
C14_UseThenWatch ==
    (c_delivered = Q_use_a \o Q_watch_b /\ ReturnedNormally) =>
        c_out = <<85, 83, 73, 78, 71, 32, 97, 13, 10>> \o <<87, 65, 84, 67, 72, 73, 78, 71, 32, 50, 13, 10>>

\* C15: the responses to the frames that arrived in one read are written to
\* the socket in one write: the handler makes at most one write_all_buf
\* call between two reads.
C15_OneWritePerBatch == c_batch <= 1

\* C16: when the token is cancelled while a response is being written, the
\* response is written whole or not at all before the socket is shut down:
\* what a cancelled connection has received when it is closed is a sequence
\* of whole responses.
C16_WriteAtomicUnderCancel ==
    (c_pc = "closed" /\ cancel /\ c_ret = "Ok") =>
        (c_out = <<>> \/ SubSeq(c_out, Len(c_out) - 1, Len(c_out)) = <<CR, LF>>)

\* C18: a quit line closes the connection: no frame after it is handed to
\* the parser and the handler does not read again.
C18_QuitCloses ==
    \A i \in 1..Len(c_parsed) :
        c_parsed[i] = B_quit => (i = Len(c_parsed) /\ c_pc # "read")

\* the longest request line, CR LF included
MaxRequestLine == 224

\* C19: a request line longer than 224 bytes with its CR LF is answered
\* BAD_FORMAT.
C19_LongLineBadFormat ==
    (c_pc = "write" /\ Len(c_parsed[Len(c_parsed)]) + 2 > MaxRequestLine) =>
        \E k \in 1..Len(R_BAD_FORMAT) :
            c_resp_buf = SubSeq(R_BAD_FORMAT, k, Len(R_BAD_FORMAT))

\* the responses handle_conn gives to the frames fs, one after the other
RECURSIVE AnswersTo(_)
AnswersTo(fs) == IF fs = <<>> THEN <<>> ELSE Respond(Head(fs)) \o AnswersTo(Tail(fs))

\* C31: when the client has sent complete lines and closed its sending side,
\* and the handler returns on the 0-byte read with no cancellation, the
\* socket has been given the whole response to every one of those lines,
\* the last included, in their order, and nothing else.
C31_HalfCloseAcknowledged ==
    (c_pc \in {"done", "closed"} /\ c_ret = "Ok" /\ ~cancel) =>
        /\ c_todo = <<>>
        /\ c_out = AnswersTo(CompleteLines(c_delivered))

\* C31 witness: "x" and "use " were sent and the sending side closed; the
\* handler has returned after writing UNKNOWN_COMMAND and BAD_FORMAT.
C31_Witness ==
    /\ c_pc = "done"
    /\ c_ret = "Ok"
    /\ ~cancel
    /\ c_delivered = Q_unknown \o Q_bad
    /\ c_out = R_UNKNOWN_COMMAND \o R_BAD_FORMAT

\* C32: fed the same stream cut into the same reads, handle_conn hands the
\* parser the frames read_line returns: at any moment the shorter of the two
\* sequences is the start of the other; when both have got as many frames
\* the two buffers hold the same bytes; and when both are suspended in a
\* read the frames are the same and so is the unterminated remainder.
C32_FramingEquivalent ==
    /\ delivered = c_delivered
    /\ IsPrefix(frames, c_parsed) \/ IsPrefix(c_parsed, frames)
    /\ (Len(frames) = Len(c_parsed) /\ c_pc # "done") => buf = c_buf
    /\ (lr_pc = "await" /\ c_pc = "read") => (frames = c_parsed /\ buf = c_buf)
    /\ c_pc = "done" => frames = c_parsed

\* C32 witness: a CR LF was split between two reads; both are suspended in
\* a read having framed the same two lines, with a remainder buffered.
C32_Witness ==
    /\ lr_pc = "await"
    /\ c_pc = "read"
    /\ split_crlf
    /\ Len(c_parsed) = 2
    /\ frames = c_parsed
    /\ c_buf # <<>>

\* s ends with t
IsSuffix(t, s) == Len(t) <= Len(s) /\ SubSeq(s, Len(s) - Len(t) + 1, Len(s)) = t

\* t is a job id or count in decimal
IsId(t) == Len(t) > 0 /\ Accumulate(t, 1, Zero(LimbsOf("u64"))).some

\* the connection has received the whole of stream q, the client has closed
\* its sending side and the handler has returned
Served(q) == c_delivered = q /\ c_todo = <<>> /\ ReturnedNormally

\* C22: reserve returns the Ready job of lowest priority value, the earlier
\* one among equals.  A job of priority 5 with an empty body and then a job
\* of priority 1 with body "a" are put on a fresh server and reserve is sent:
\* the last response is RESERVED <id> 1 with body "a", the job of priority 1.
C22_ReserveOrder ==
    Served(Q_put_reserve) =>
        \E k \in 1..(Len(c_out) - Len(W_RESERVED) - 7) :
            /\ k = 1 \/ (k > 2 /\ SubSeq(c_out, k - 2, k - 1) = <<CR, LF>>)
            /\ SubSeq(c_out, k, k + Len(W_RESERVED) - 1) = W_RESERVED
            /\ IsSuffix(<<SP, 49, CR, LF, 97, CR, LF>>, c_out)
            /\ IsId(SubSeq(c_out, k + Len(W_RESERVED), Len(c_out) - 7))

\* C23: the watch set of a session is never empty.  On a fresh session,
\* which watches "default" only, ignore default is answered NOT_IGNORED; and
\* watch b, which makes the watch set {"default", "b"}, is answered
\* WATCHING 2.
C23_WatchSetNeverEmpty ==
    /\ Served(Q_ignore_default) =>
            c_out = BeanstalkResponse_serialise_beanstalk([variant |-> "NotIgnored"])
    /\ Served(Q_use_a \o Q_watch_b) =>
            IsSuffix(BeanstalkResponse_serialise_beanstalk(
                         [variant |-> "Watching", count |-> <<2, 0>>]), c_out)

\* C24: kick <bound> is answered KICKED <count>, count being the number of
\* jobs promoted, at most bound.  On a fresh server, where no job is buried
\* or delayed, kick 5 is answered KICKED 0.
C24_KickPolicy ==
    Served(Q_kick) =>
        c_out = BeanstalkResponse_serialise_beanstalk(
                    [variant |-> "KickedCount", count |-> Zero(LimbsOf("u64"))])

\* C26: a valid put with its body is answered INSERTED <id>, and peek <id>
\* then returns FOUND <id> <n_bytes> with the body.  A job with body "a" is
\* put and peek 1 is sent: the output is INSERTED <id> and then, the id
\* being 1, FOUND 1 1 with body "a" (NOT_FOUND were the id another one).
C26_PutPeekRoundTrip ==
    Served(Q_put_peek) =>
        /\ CompleteLines(c_out) # <<>>
        /\ LET first == Head(CompleteLines(c_out))
               id == SubSeq(first, Len(W_INSERTED) + 1, Len(first))
           IN  /\ IsPrefix(W_INSERTED, first)
               /\ IsId(id)
               /\ c_out = first \o <<CR, LF>> \o
                     (IF id = <<49>>
                      THEN BeanstalkResponse_serialise_beanstalk(
                               [variant |-> "Found", id |-> <<1, 0, 0, 0>>, data |-> <<97>>])
                      ELSE BeanstalkResponse_serialise_beanstalk([variant |-> "NotFound"]))

-----------------------------------------------------------------------------
(* main, begin and begin_handle: the accept loop, the connection tasks and  *)
(* the shutdown.  Each connection task is followed from one suspension      *)
(* point to the next, its buffer counted in complete frames.                *)

\* connections accepted at most
MaxConns == 2

\* complete frames one read brings at most
MaxBatch == 2

\* responses a connection is sent at most
MaxAnswered == 2

Conns == 1..MaxConns

\* the variables of one handle_conn followed byte by byte, the token apart
cnlocal == <<c_buf, c_from, c_bytes_read, c_pc, c_resp_buf, c_ret, c_todo,
             c_delivered, c_parsed, c_out, c_batch>>

\* a connection not accepted yet.  pc: "none", "read" and "write" (in the
\* select! of handle_conn), "done" (handle_conn has returned, begin_handle is
\* in conn.shutdown()), "dropped" (begin_handle has returned and dropped its
\* _shutdown_hold).  pending: the complete frames in buf; answered: the
\* responses written; ret: what handle_conn returned.
NoTask == [pc |-> "none", pending |-> 0, answered |-> 0, ret |-> "None"]

\* begin has returned, dropping the shutdown_hold it was given
Returned(a) == a \in {"ok", "err"}

MutRecvAtOnce(hh, a) == TRUE
\* shutdown_wait.recv() returns None: every clone of shutdown_hold is
\* dropped, that of begin and that of each task spawned
SendersDropped(hh, a) ==
    Returned(a) /\ \A i \in DOMAIN hh : hh[i].pc \in {"none", "dropped"}

MutErrCancelsAll(c) == TRUE
\* the token after a handler has returned an error: no handler cancels it
TokenAfterErr(c) == c

InitSrv ==
    /\ NewLineReader
    /\ ParserIdle
    /\ ConnIdle
    /\ m_pc = "begin"
    /\ exit_code = "None"
    /\ a_pc = "bind"
    /\ h = [i \in Conns |-> NoTask]

\* TcpListener::bind(..).await? succeeds: begin enters its loop
BindOk ==
    /\ a_pc = "bind"
    /\ a_pc' = "accept"
    /\ UNCHANGED <<m_pc, exit_code, h, cancel, cnlocal, lrvars, psvars>>

\* TcpListener::bind(..).await? fails: begin returns the error
BindErr ==
    /\ a_pc = "bind"
    /\ a_pc' = "err"
    /\ UNCHANGED <<m_pc, exit_code, h, cancel, cnlocal, lrvars, psvars>>

\* listener.accept() gives a connection, the next one, and begin_handle is
\* spawned on it: it reaches the read of handle_conn, or returns early on a
\* failed peer_addr or set_nodelay.  (A failed accept is logged and the loop
\* goes on: no state changes.)
Accept ==
    /\ a_pc = "accept"
    /\ \E i \in Conns :
        /\ h[i].pc = "none"
        /\ \A j \in Conns : h[j].pc = "none" => i <= j
        /\ \/ h' = [h EXCEPT ![i].pc = "read"]
           \/ h' = [h EXCEPT ![i].pc = "dropped", ![i].ret = "Err"]
    /\ UNCHANGED <<m_pc, exit_code, a_pc, cancel, cnlocal, lrvars, psvars>>

\* the `_ = cancel.cancelled() => break` branch of the accept loop
AcceptBreak ==
    /\ a_pc = "accept"
    /\ cancel
    /\ a_pc' = "ok"
    /\ UNCHANGED <<m_pc, exit_code, h, cancel, cnlocal, lrvars, psvars>>

\* the read of connection i completes with k complete frames: the first is
\* parsed and its response is being written
HRead(i) ==
    /\ h[i].pc = "read"
    /\ \E k \in 1..MaxBatch :
        /\ h[i].answered + k <= MaxAnswered
        /\ h' = [h EXCEPT ![i].pc = "write", ![i].pending = k]
    /\ UNCHANGED <<m_pc, exit_code, a_pc, cancel, cnlocal, lrvars, psvars>>

\* the read of connection i completes with 0 bytes: handle_conn returns Ok
HReadZero(i) ==
    /\ h[i].pc = "read"
    /\ h' = [h EXCEPT ![i].pc = "done", ![i].ret = "Ok"]
    /\ UNCHANGED <<m_pc, exit_code, a_pc, cancel, cnlocal, lrvars, psvars>>

\* the write of connection i completes: the next frame in buf is parsed and
\* its response written, or the handler reads again
HWrite(i) ==
    /\ h[i].pc = "write"
    /\ h' = [h EXCEPT ![i].pc = IF h[i].pending > 1 THEN "write" ELSE "read",
                      ![i].pending = h[i].pending - 1,
                      ![i].answered = h[i].answered + 1]
    /\ UNCHANGED <<m_pc, exit_code, a_pc, cancel, cnlocal, lrvars, psvars>>

\* the read or the write of connection i fails: handle_conn returns the
\* error, its buf is dropped
HErr(i) ==
    /\ h[i].pc \in {"read", "write"}
    /\ h' = [h EXCEPT ![i].pc = "done", ![i].ret = "Err", ![i].pending = 0]
    /\ cancel' = TokenAfterErr(cancel)
    /\ UNCHANGED <<m_pc, exit_code, a_pc, cnlocal, lrvars, psvars>>

\* the cancelled() branch of the select! connection i is suspended in
HCancelled(i) ==
    /\ h[i].pc \in {"read", "write"}
    /\ cancel
    /\ h' = [h EXCEPT ![i].pc = "done", ![i].ret = "Ok", ![i].pending = 0]
    /\ UNCHANGED <<m_pc, exit_code, a_pc, cancel, cnlocal, lrvars, psvars>>

\* begin_handle of connection i: conn.shutdown().await is over, ret (or the
\* error of the shutdown) is returned and _shutdown_hold dropped
HShutdown(i) ==
    /\ h[i].pc = "done"
    /\ \/ h' = [h EXCEPT ![i].pc = "dropped"]
       \/ h' = [h EXCEPT ![i].pc = "dropped", ![i].ret = "Err"]
    /\ UNCHANGED <<m_pc, exit_code, a_pc, cancel, cnlocal, lrvars, psvars>>

\* the task main spawns first: signal::ctrl_c().await, then cancel.cancel()
CtrlC ==
    /\ ~cancel
    /\ m_pc # "exited"
    /\ cancel' = TRUE
    /\ UNCHANGED <<m_pc, exit_code, a_pc, h, cnlocal, lrvars, psvars>>

\* main: begin(..).await has returned and exit_code is set from its result
MainBegun ==
    /\ m_pc = "begin"
    /\ Returned(a_pc)
    /\ m_pc' = "wait"
    /\ exit_code' = IF a_pc = "err" THEN "FAILURE" ELSE "SUCCESS"
    /\ UNCHANGED <<a_pc, h, cancel, cnlocal, lrvars, psvars>>

\* main: shutdown_wait.recv().await returns and main returns exit_code
MainRecv ==
    /\ m_pc = "wait"
    /\ SendersDropped(h, a_pc)
    /\ m_pc' = "exited"
    /\ UNCHANGED <<exit_code, a_pc, h, cancel, cnlocal, lrvars, psvars>>

NextSrv ==
    \/ BindOk
    \/ BindErr
    \/ Accept
    \/ AcceptBreak
    \/ \E i \in Conns : HRead(i)
    \/ \E i \in Conns : HReadZero(i)
    \/ \E i \in Conns : HWrite(i)
    \/ \E i \in Conns : HErr(i)
    \/ \E i \in Conns : HCancelled(i)
    \/ \E i \in Conns : HShutdown(i)
    \/ CtrlC
    \/ MainBegun
    \/ MainRecv

\* What the runtime guarantees: a task that can run is run.  bind, the
\* cancelled() branch of a select!, conn.shutdown() and the awaits of main
\* complete by themselves; a read or a write completes only if the client
\* sends or reads, which nothing guarantees.
FairSrv ==
    /\ WF_vars(BindOk \/ BindErr)
    /\ WF_vars(AcceptBreak)
    /\ \A i \in Conns : WF_vars(HCancelled(i))
    /\ \A i \in Conns : WF_vars(HShutdown(i))
    /\ WF_vars(MainBegun)
    /\ WF_vars(MainRecv)

SpecSrv == InitSrv /\ [][NextSrv]_vars /\ FairSrv

-----------------------------------------------------------------------------
(* Properties of the server *)

\* C17: once the token is cancelled the accept loop ends, every handler
\* suspended in a read or a write returns, and main exits, whatever the
\* clients do; and main exits only after begin and every connection task it
\* spawned have finished.
C17_ShutdownTerminates ==
    /\ [](m_pc = "exited" =>
            (Returned(a_pc) /\ \A i \in Conns : h[i].pc \in {"none", "dropped"}))
    /\ cancel ~> Returned(a_pc)
    /\ \A i \in Conns :
          (cancel /\ h[i].pc \in {"read", "write"}) ~> (h[i].pc \in {"done", "dropped"})
    /\ cancel ~> (m_pc = "exited")

\* C17 witness: main has exited after a cancellation that found one
\* connection in its read and the other in a write.
C17_Witness ==
    /\ m_pc = "exited"
    /\ cancel
    /\ exit_code = "SUCCESS"
    /\ \A i \in Conns : h[i].pc = "dropped" /\ h[i].ret = "Ok"
    /\ h[1].answered = 0
    /\ h[2].answered = 1

\* C20: a failed read or write of one connection ends the handler of that
\* connection only: the step leaves the token, the accept loop, main and
\* every other connection, with its buffered frames and its responses, as
\* they were.
C20_ConnectionIsolation ==
    [][\A i \in Conns :
          (h[i].pc \in {"read", "write"} /\ h'[i].pc = "done" /\ h'[i].ret = "Err") =>
              /\ cancel' = cancel
              /\ a_pc' = a_pc
              /\ m_pc' = m_pc
              /\ \A j \in Conns \ {i} : h'[j] = h[j]]_vars

\* C20 witness: connection 1 has failed while connection 2, one response
\* sent, is writing the next with a frame more in its buffer; the token is
\* not cancelled and the accept loop runs.
C20_Witness ==
    /\ h[1].ret = "Err"
    /\ h[1].pc \in {"done", "dropped"}
    /\ h[2].pc = "write"
    /\ h[2].answered = 1
    /\ ~cancel
    /\ a_pc = "accept"

=============================================================================
